---------------------------- MODULE Spec2Model ----------------------------
(***************************************************************************)
(* State-machine model of src/ollama-benchmark.py: main() starts the      *)
(* Ollama server, runs benchmark_model for every (model, repetition)      *)
(* pair, stops the server in a finally block and saves the results.       *)
(*                                                                         *)
(* Granularity: one action per blocking call of the script (Popen, sleep, *)
(* subprocess.run, requests.post, process.wait, to_csv) plus the pure     *)
(* steps between them.  A fault from outside (KeyboardInterrupt) is       *)
(* delivered while the control thread sits in one of these steps.         *)
(*                                                                         *)
(* Three specifications: Spec is a run of main(); SinkSpec is save_results *)
(* called on any lists, one call after another; SyncSpec is               *)
(* extract_metadata of src/paper-qa.py on any library and directory.      *)
(*                                                                         *)
(* Numbers: Python computes Runtime and Speed in floating point; the model *)
(* carries them as exact fractions <<numerator, denominator>> in lowest   *)
(* terms.  Durations are carried in ticks of 10^6 ns, so that the 10**9   *)
(* of the script is TicksPerSecond ticks and 5_000_000_000 ns is 5000.    *)
(***************************************************************************)
EXTENDS Integers, Sequences, FiniteSets, TLC

VARIABLES
    models,                 \* main: the catalog iterated by the outer loop
    pc,                     \* position of the control thread
    mi,                     \* main: index of `model` in models (1-based)
    rep,                    \* main: i of `for i in range(3)`
    process,                \* the "ollama serve" OS process
    ollama_process,         \* main: TRUE once the handle is bound (line 149)
    benchmark_results_list, \* main: the accumulated records
    pulled,                 \* benchmark_model: exit status of "ollama pull"
    reply,                  \* benchmark_model: what requests.post did
    answer,                 \* benchmark_model: local answer
    runtime,                \* benchmark_model: local runtime
    speed,                  \* benchmark_model: local speed
    exc,                    \* the exception in flight, "None" when none
    faults,                 \* history: <<step, exception>> of every raise
    stopCalls,              \* history: invocations of stop_ollama_server
    saveCalls,              \* history: invocations of save_results
    pullCount,              \* history: "ollama pull" commands issued
    postCount,              \* history: generation requests issued
    unloadCount,            \* history: "ollama stop" commands issued
    anomalies,              \* history: replies other than NominalReply, and
                            \*          failed "ollama stop" commands
    csv,                    \* results/ollama_benchmark.csv: [exists, header, rows]
    loaded,                 \* the server: the models it holds in memory
    unloadFailed,           \* history: some "ollama stop" command has failed
    launched,               \* history: "ollama serve" processes launched
    persisted,              \* history: the lists handed to save_results
    \* paper-qa.py, extract_metadata
    items,                  \* the library: per item, its attachments
    papers,                 \* the files in papers_dir
    dir_exists,             \* os.path.exists(papers_dir)
    existing_files,         \* local existing_files
    current_files,          \* local current_files
    metadata,               \* local metadata (the file of each entry)
    files_to_remove,        \* local files_to_remove, what is left of it
    item_ix,                \* position of `for item in items`
    att_ix,                 \* position of `for att in attachments`
    spc,                    \* position of extract_metadata
    papers0,                \* history: papers when extract_metadata began
    downloads,              \* history: files written by zot.dump
    removals                \* history: files removed by os.remove

bench == <<models, pc, mi, rep, process, ollama_process,
           benchmark_results_list, pulled, reply, answer, runtime, speed,
           exc, faults, stopCalls, saveCalls, pullCount, postCount,
           unloadCount, anomalies, csv, loaded, unloadFailed, launched,
           persisted>>

sync == <<items, papers, dir_exists, existing_files, current_files, metadata,
          files_to_remove, item_ix, att_ix, spc, papers0, downloads, removals>>

vars == <<bench, sync>>

---------------------------------------------------------------------------
(* Bounds of the model *)

MaxModels == 2

MaxAnomalies == 2

MaxRows == 2

MaxPersists == 2

MaxItems == 2

MaxAttachments == 1

---------------------------------------------------------------------------
(* Program constants *)

Reps == 3

TicksPerSecond == 1000

OkStatus == 200

\* dict.get on a key the JSON body does not carry
Absent == -1

NoText == "<absent>"

Catalog ==
    << [name |-> "gemma3",       parameters |-> "12b"],
       [name |-> "gemma3",       parameters |-> "27b"],
       [name |-> "deepseek-r1",  parameters |-> "7b"],
       [name |-> "deepseek-r1",  parameters |-> "8b"],
       [name |-> "deepseek-r1",  parameters |-> "14b"],
       [name |-> "deepseek-r1",  parameters |-> "32b"],
       [name |-> "deepseek-r1",  parameters |-> "70b"],
       [name |-> "deepseek-llm", parameters |-> "7b"],
       [name |-> "deepseek-llm", parameters |-> "67b"],
       [name |-> "deepseek-v2",  parameters |-> "16b"],
       [name |-> "llama2",       parameters |-> "7b"],
       [name |-> "llama2",       parameters |-> "13b"],
       [name |-> "llama2",       parameters |-> "70b"],
       [name |-> "llama3",       parameters |-> "8b"],
       [name |-> "llama3",       parameters |-> "70b"],
       [name |-> "llama3.1",     parameters |-> "8b"],
       [name |-> "llama3.1",     parameters |-> "70b"],
       [name |-> "llama3.3",     parameters |-> "70b"] >>

\* The catalogs explored: the leading entries of the script's list.
Catalogs == { SubSeq(Catalog, 1, n) : n \in 0..MaxModels }

---------------------------------------------------------------------------
(* The generation endpoint as seen by requests.post *)

Body(text, total, count, duration) ==
    [response |-> text, total_duration |-> total,
     eval_count |-> count, eval_duration |-> duration]

NoBody == Body(NoText, Absent, Absent, Absent)

NoReply == [kind |-> "none", status |-> 0, body |-> NoBody]

NominalReply ==
    [kind |-> "response", status |-> OkStatus,
     body |-> Body("A, C, G, T", 5000, 100, 2000)]

AnomalousReplies ==
    { [kind |-> "timeout",    status |-> 0, body |-> NoBody],
      [kind |-> "connection", status |-> 0, body |-> NoBody],
      [kind |-> "response",   status |-> 500, body |-> NoBody],
      [kind |-> "response",   status |-> 404, body |-> NoBody],
      [kind |-> "response",   status |-> OkStatus,
       body |-> Body("A, C, G, T", 5000, 100, 0)],
      [kind |-> "response",   status |-> OkStatus,
       body |-> Body("A, C, G, T", 5000, 100, Absent)],
      [kind |-> "response",   status |-> OkStatus,
       body |-> Body(NoText, 5000, 100, 2000)],
      [kind |-> "response",   status |-> OkStatus,
       body |-> Body("A, C, G, T", 1500, 7, 3000)] }

Replies == {NominalReply} \cup AnomalousReplies

---------------------------------------------------------------------------
(* Arithmetic of benchmark_model *)

RECURSIVE GCD(_, _)
GCD(a, b) == IF b = 0 THEN a ELSE GCD(b, a % b)

\* Python's true division n / d for d > 0, as a fraction in lowest terms
Div(n, d) == LET g == GCD(n, d) IN <<n \div g, d \div g>>

Zero == <<0, 1>>

GetText(body) ==
    IF body.response = NoText THEN "No response" ELSE body.response

GetNum(v) == IF v = Absent THEN 0 ELSE v

DividesByZero(body) == GetNum(body.eval_duration) = 0

Runtime(body) == Div(GetNum(body.total_duration), TicksPerSecond)

\* Speed without the factor 10**9
Speed_Unscaled(body) ==
    Div(GetNum(body.eval_count), GetNum(body.eval_duration))

Speed(body) ==
    Div(GetNum(body.eval_count) * TicksPerSecond, GetNum(body.eval_duration))

\* f"{model_name}:{model_parameters}"
FullModelName(model) == <<model.name, ":", model.parameters>>

ResultRecord(model, a, r, s) ==
    [Model |-> model.name, Parameters |-> model.parameters,
     Answer |-> a, Runtime |-> r, Speed |-> s]

---------------------------------------------------------------------------
(* save_results: pandas.DataFrame(results).to_csv(output_file, index=False) *)

NoFile == [exists |-> FALSE, header |-> <<>>, rows |-> <<>>]

\* The keys of the record dicts, in the order benchmark_model writes them
Header == <<"Model", "Parameters", "Answer", "Runtime (s)", "Speed (tokens/s)">>

\* DataFrame(results).columns: taken from the dicts, so none for an empty list
Columns(list) == IF list = <<>> THEN <<>> ELSE Header

\* One line of the file: the values of a record in column order
Row(record) ==
    <<record.Model, record.Parameters, record.Answer, record.Runtime,
      record.Speed>>

Rows(list) == [k \in 1..Len(list) |-> Row(list[k])]

\* WriteCsv with the file opened in mode "a"
WriteCsv_Append(old, list) ==
    [exists |-> TRUE,
     header |-> IF old.exists THEN old.header ELSE Columns(list),
     rows |-> old.rows \o Rows(list)]

\* to_csv opens the file in mode "w": what was there (old) is discarded
WriteCsv(old, list) ==
    [exists |-> TRUE, header |-> Columns(list), rows |-> Rows(list)]

---------------------------------------------------------------------------
(* Steps of the control thread *)

\* Steps inside the try block of main (lines 155-161)
LoopSteps == {"Pull", "Post", "Parse", "Unload", "Cooldown", "Append", "Sleep"}

\* Steps at which the control thread blocks or calls out, inside the try
FaultPoints == {"Pull", "Post", "Unload", "Cooldown", "Append", "Sleep"}

\* extract_metadata is not running
SyncOff ==
    /\ items = <<>>
    /\ papers = {}
    /\ dir_exists = FALSE
    /\ existing_files = {}
    /\ current_files = {}
    /\ metadata = <<>>
    /\ files_to_remove = {}
    /\ item_ix = 1
    /\ att_ix = 1
    /\ spc = "Off"
    /\ papers0 = {}
    /\ downloads = {}
    /\ removals = {}

\* main() of ollama-benchmark.py before its first statement
Fresh ==
    /\ mi = 1
    /\ rep = 0
    /\ process = "None"
    /\ ollama_process = FALSE
    /\ benchmark_results_list = <<>>
    /\ pulled = Absent
    /\ reply = NoReply
    /\ answer = NoText
    /\ runtime = Zero
    /\ speed = Zero
    /\ exc = "None"
    /\ faults = <<>>
    /\ stopCalls = 0
    /\ saveCalls = 0
    /\ pullCount = 0
    /\ postCount = 0
    /\ unloadCount = 0
    /\ anomalies = 0
    /\ csv = NoFile
    /\ loaded = {}
    /\ unloadFailed = FALSE
    /\ launched = 0
    /\ persisted = <<>>

Init ==
    /\ models \in Catalogs
    /\ pc = "Idle"
    /\ Fresh
    /\ SyncOff

locals == <<pulled, reply, answer, runtime, speed>>
loopvars == <<models, mi, rep, benchmark_results_list>>
counters == <<pullCount, postCount, unloadCount, anomalies>>
server == <<loaded, unloadFailed, launched>>

\* stop_ollama_server up to its blocking wait: terminate() signals the process
StopOllamaServer ==
    /\ stopCalls' = stopCalls + 1
    /\ process' = "Terminating"
    /\ pc' = "Wait"

\* An exception e raised by step `at` with no try block around it
RaiseOutside(at, e) ==
    /\ exc' = e
    /\ faults' = Append(faults, <<at, e>>)
    /\ pc' = "Crashed"

\* RaiseInTry without the finally clause
RaiseInTry_NoFinally(at, e) ==
    /\ RaiseOutside(at, e)
    /\ UNCHANGED <<process, stopCalls>>

\* An exception e raised by step `at` inside try: the finally clause runs
RaiseInTry(at, e) ==
    /\ exc' = e
    /\ faults' = Append(faults, <<at, e>>)
    /\ StopOllamaServer

\* AfterFinally with the exception swallowed (except instead of finally)
AfterFinally_Swallowed(e) == "Save"

\* Where control goes when the finally clause ends with e in flight
AfterFinally(e) == IF e = "None" THEN "Save" ELSE "Crashed"

\* StartOllamaServer called again for every pass of the loop
StartOllamaServer_PerPass ==
    /\ pc \in {"Idle", "Loop"}
    /\ process' = "Running"
    /\ launched' = launched + 1
    /\ pc' = "Settle"
    /\ UNCHANGED <<loopvars, locals, counters, ollama_process, stopCalls,
                   saveCalls, csv, loaded, unloadFailed, persisted, exc,
                   faults>>
    /\ UNCHANGED sync

\* start_ollama_server: Popen launches the server, or raises
StartOllamaServer ==
    /\ pc = "Idle"
    /\ \/ /\ process' = "Running"
          /\ launched' = launched + 1
          /\ pc' = "Settle"
          /\ UNCHANGED <<exc, faults>>
       \/ /\ RaiseOutside("Idle", "FileNotFoundError")
          /\ UNCHANGED <<process, launched>>
    /\ UNCHANGED <<loopvars, locals, counters, ollama_process, stopCalls,
                   saveCalls, csv, loaded, unloadFailed, persisted>>
    /\ UNCHANGED sync

\* time.sleep(5) ends, the handle is returned and bound, the try is entered
Settle ==
    /\ pc = "Settle"
    /\ ollama_process' = TRUE
    /\ benchmark_results_list' = <<>>
    /\ pc' = "Loop"
    /\ UNCHANGED <<models, mi, rep, locals, counters, process, exc, faults,
                   stopCalls, saveCalls, csv,
                   server, persisted>>
    /\ UNCHANGED sync

\* LoopNext with save_results moved above the finally clause
LoopNext_SaveFirst ==
    /\ pc = "Loop"
    /\ pc' = IF mi <= Len(models) THEN "Pull" ELSE "Save"
    /\ UNCHANGED <<loopvars, locals, counters, ollama_process, exc, faults,
                   saveCalls, csv, server, persisted, process, stopCalls>>
    /\ UNCHANGED sync

\* The two for statements: the next pair, or the end of the loop
LoopNext ==
    /\ pc = "Loop"
    /\ IF mi <= Len(models)
          THEN /\ pc' = "Pull"
               /\ UNCHANGED <<process, stopCalls>>
          ELSE StopOllamaServer
    /\ UNCHANGED <<loopvars, locals, counters, ollama_process, exc, faults,
                   saveCalls, csv,
                   server, persisted>>
    /\ UNCHANGED sync

\* Exit statuses of the ollama command line
ExitStatuses == {0, 1}

\* OnPullStatus with check=True given to subprocess.run
OnPullStatus_Checked(rc) == IF rc = 0 THEN "None" ELSE "CalledProcessError"

\* What subprocess.run raises for exit status rc: no check=True, so nothing
OnPullStatus(rc) == "None"

\* subprocess.run(["ollama", "pull", ...]): the exit status is not looked at
Pull ==
    /\ pc = "Pull"
    /\ pullCount' = pullCount + 1
    /\ \E rc \in ExitStatuses :
          /\ pulled' = rc
          /\ IF OnPullStatus(rc) = "None"
                THEN /\ pc' = "Post"
                     /\ UNCHANGED <<exc, faults, process, stopCalls>>
                ELSE RaiseInTry("Pull", OnPullStatus(rc))
    /\ UNCHANGED <<loopvars, reply, answer, runtime, speed, postCount,
                   unloadCount, anomalies, ollama_process, saveCalls, csv,
                   server, persisted>>
    /\ UNCHANGED sync

\* The server answers a generation request with status 200 only with the
\* model in memory; any other outcome leaves its memory as it was
Served(set, name, r) ==
    IF r.kind = "response" /\ r.status = OkStatus THEN set \cup {name} ELSE set

\* AfterPost with the request repeated when it timed out
AfterPost_Retry(r) == IF r.kind = "timeout" THEN "Post" ELSE "Parse"

\* Where control goes once requests.post has returned or raised
AfterPost(r) == "Parse"

\* requests.post is issued and the server (or the network) answers
Post ==
    /\ pc = "Post"
    /\ \E r \in Replies :
          /\ r = NominalReply \/ anomalies < MaxAnomalies
          /\ reply' = r
          /\ anomalies' = IF r = NominalReply THEN anomalies ELSE anomalies + 1
          /\ loaded' = Served(loaded, FullModelName(models[mi]), r)
          /\ pc' = AfterPost(r)
    /\ postCount' = postCount + 1
    /\ UNCHANGED <<loopvars, pulled, answer, runtime, speed, pullCount,
                   unloadCount, process, ollama_process, exc, faults,
                   stopCalls, saveCalls, csv, unloadFailed, launched,
                   persisted>>
    /\ UNCHANGED sync

Measured(a, r, s) == [raises |-> "None", answer |-> a, runtime |-> r, speed |-> s]

Raised(e) == [raises |-> e, answer |-> NoText, runtime |-> Zero, speed |-> Zero]

\* OnTimeout without the except clause
OnTimeout_Uncaught == Raised("Timeout")

\* except requests.exceptions.Timeout
OnTimeout == Measured("Timeout", Zero, Zero)

\* OnOtherStatus with response.raise_for_status() in its place
OnOtherStatus_Raises == Raised("HTTPError")

\* the else branch of `if response.status_code == 200`
OnOtherStatus == Measured("Error", Zero, Zero)

\* OnConnectionError with `except Exception` in place of `except Timeout`
OnConnectionError_Caught == Measured("Error", Zero, Zero)

\* requests.post raised something other than Timeout: no except clause
OnConnectionError == Raised("ConnectionError")

\* the branch of status 200: three dict.get and two divisions
OnOkStatus(body) ==
    IF DividesByZero(body)
       THEN Raised("ZeroDivisionError")
       ELSE Measured(GetText(body), Runtime(body), Speed(body))

\* The try/except of benchmark_model applied to what requests.post did
Measure(r) ==
    IF r.kind = "timeout" THEN OnTimeout
    ELSE IF r.kind = "connection" THEN OnConnectionError
    ELSE IF r.status = OkStatus THEN OnOkStatus(r.body)
    ELSE OnOtherStatus

Parse ==
    /\ pc = "Parse"
    /\ LET m == Measure(reply) IN
         IF m.raises = "None"
            THEN /\ answer' = m.answer
                 /\ runtime' = m.runtime
                 /\ speed' = m.speed
                 /\ pc' = "Unload"
                 /\ UNCHANGED <<exc, faults, process, stopCalls>>
            ELSE /\ RaiseInTry("Parse", m.raises)
                 /\ UNCHANGED <<answer, runtime, speed>>
    /\ UNCHANGED <<loopvars, pulled, reply, counters, ollama_process,
                   saveCalls, csv,
                   server, persisted>>
    /\ UNCHANGED sync

\* Unloaded with the "ollama stop" command left out
Unloaded_Never(set, name, rc) == set

\* The server's memory after "ollama stop <name>" ended with exit status rc
Unloaded(set, name, rc) == IF rc = 0 THEN set \ {name} ELSE set

\* subprocess.run(["ollama", "stop", ...]): the exit status is not looked at
Unload ==
    /\ pc = "Unload"
    /\ unloadCount' = unloadCount + 1
    /\ \E rc \in ExitStatuses :
          /\ rc = 0 \/ anomalies < MaxAnomalies
          /\ loaded' = Unloaded(loaded, FullModelName(models[mi]), rc)
          /\ unloadFailed' = (unloadFailed \/ rc # 0)
          /\ anomalies' = IF rc = 0 THEN anomalies ELSE anomalies + 1
    /\ pc' = "Cooldown"
    /\ UNCHANGED <<loopvars, locals, pullCount, postCount, process,
                   ollama_process, exc, faults, stopCalls, saveCalls, csv,
                   launched, persisted>>
    /\ UNCHANGED sync

\* time.sleep(5) of benchmark_model ends and the record is returned
Cooldown ==
    /\ pc = "Cooldown"
    /\ pc' = "Append"
    /\ UNCHANGED <<loopvars, locals, counters, process, ollama_process, exc,
                   faults, stopCalls, saveCalls, csv,
                   server, persisted>>
    /\ UNCHANGED sync

\* Appended with list.insert(0, record) in its place
Appended_AtFront(list, record) == <<record>> \o list

\* list.append
Appended(list, record) == Append(list, record)

AppendResult ==
    /\ pc = "Append"
    /\ benchmark_results_list' =
          Appended(benchmark_results_list,
                   ResultRecord(models[mi], answer, runtime, speed))
    /\ pulled' = Absent
    /\ reply' = NoReply
    /\ answer' = NoText
    /\ runtime' = Zero
    /\ speed' = Zero
    /\ pc' = "Sleep"
    /\ UNCHANGED <<models, mi, rep, counters, process, ollama_process, exc,
                   faults, stopCalls, saveCalls, csv,
                   server, persisted>>
    /\ UNCHANGED sync

\* The pair after (m, i): inner loop over range(3), outer loop over models
NextPair(m, i) == IF i + 1 < Reps THEN <<m, i + 1>> ELSE <<m + 1, 0>>

\* time.sleep(5) between queries ends
Sleep ==
    /\ pc = "Sleep"
    /\ mi' = NextPair(mi, rep)[1]
    /\ rep' = NextPair(mi, rep)[2]
    /\ pc' = "Loop"
    /\ UNCHANGED <<models, benchmark_results_list, locals, counters, process,
                   ollama_process, exc, faults, stopCalls, saveCalls, csv,
                   server, persisted>>
    /\ UNCHANGED sync

\* process.wait() returns; the finally clause ends
Wait ==
    /\ pc = "Wait"
    /\ process' = "Exited"
    /\ loaded' = {}
    /\ pc' = AfterFinally(exc)
    /\ UNCHANGED <<loopvars, locals, counters, ollama_process, exc, faults,
                   stopCalls, saveCalls, csv, unloadFailed, launched,
                   persisted>>
    /\ UNCHANGED sync

\* save_results called from main (line 167)
SaveResults ==
    /\ pc = "Save"
    /\ saveCalls' = saveCalls + 1
    /\ csv' = WriteCsv(csv, benchmark_results_list)
    /\ persisted' = Append(persisted, benchmark_results_list)
    /\ pc' = "Done"
    /\ UNCHANGED <<loopvars, locals, counters, process, ollama_process, exc,
                   faults, stopCalls, server>>
    /\ UNCHANGED sync

\* A fault from outside during the settle delay of start_ollama_server
InterruptStart ==
    /\ pc = "Settle"
    /\ RaiseOutside("Settle", "KeyboardInterrupt")
    /\ UNCHANGED <<loopvars, locals, counters, process, ollama_process,
                   stopCalls, saveCalls, csv,
                   server, persisted>>
    /\ UNCHANGED sync

\* A fault raised by a step of the loop other than the generate step
InterruptLoop ==
    /\ pc \in FaultPoints
    /\ RaiseInTry(pc, "KeyboardInterrupt")
    /\ UNCHANGED <<loopvars, locals, counters, ollama_process, saveCalls, csv,
                   server, persisted>>
    /\ UNCHANGED sync

\* A fault from outside during process.wait(): stop_ollama_server raises
InterruptStop ==
    /\ pc = "Wait"
    /\ RaiseOutside("Wait", "KeyboardInterrupt")
    /\ UNCHANGED <<loopvars, locals, counters, process, ollama_process,
                   stopCalls, saveCalls, csv,
                   server, persisted>>
    /\ UNCHANGED sync

\* A fault from outside during save_results, before the file is written
InterruptSave ==
    /\ pc = "Save"
    /\ saveCalls' = saveCalls + 1
    /\ RaiseOutside("Save", "KeyboardInterrupt")
    /\ UNCHANGED <<loopvars, locals, counters, process, ollama_process,
                   stopCalls, csv,
                   server, persisted>>
    /\ UNCHANGED sync

Next ==
    \/ StartOllamaServer
    \/ Settle
    \/ LoopNext
    \/ Pull
    \/ Post
    \/ Parse
    \/ Unload
    \/ Cooldown
    \/ AppendResult
    \/ Sleep
    \/ Wait
    \/ SaveResults
    \/ InterruptStart
    \/ InterruptLoop
    \/ InterruptStop
    \/ InterruptSave

Spec == Init /\ [][Next]_vars

---------------------------------------------------------------------------
(* save_results on its own: any record lists, one call after another *)

\* What benchmark_model returns for the first model and reply r
RecordOf(r) ==
    LET m == Measure(r) IN ResultRecord(Catalog[1], m.answer, m.runtime, m.speed)

\* A success, a timeout and an error status
SinkReplies ==
    {x \in Replies : x = NominalReply \/ x.kind = "timeout" \/ x.status = 500}

SinkRecords == { RecordOf(r) : r \in SinkReplies }

RECURSIVE SeqsUpTo(_, _)
SeqsUpTo(S, n) ==
    IF n = 0 THEN {<<>>}
    ELSE LET shorter == SeqsUpTo(S, n - 1) IN
         shorter \cup { Append(q, x) : q \in shorter, x \in S }

ResultLists == SeqsUpTo(SinkRecords, MaxRows)

SinkInit ==
    /\ models = <<>>
    /\ pc = "Sink"
    /\ Fresh
    /\ SyncOff

\* save_results(results, output_file)
Persist ==
    /\ pc = "Sink"
    /\ Len(persisted) < MaxPersists
    /\ \E list \in ResultLists :
          /\ csv' = WriteCsv(csv, list)
          /\ persisted' = Append(persisted, list)
    /\ saveCalls' = saveCalls + 1
    /\ UNCHANGED <<loopvars, locals, counters, server, pc, process,
                   ollama_process, exc, faults, stopCalls>>
    /\ UNCHANGED sync

SinkNext == Persist

SinkSpec == SinkInit /\ [][SinkNext]_vars

---------------------------------------------------------------------------
(* paper-qa.py: extract_metadata(items, zot, papers_dir) *)

FileNames == {"a.pdf", "b.pdf", "c.pdf"}

\* att['data'] of an attachment: its filename, or NoText when it has none
AttachmentData == {"a.pdf", "b.pdf", NoText}

\* zot.children(item['key']) of the items explored
ItemKinds == SeqsUpTo(AttachmentData, MaxAttachments)

Libraries == SeqsUpTo(ItemKinds, MaxItems)

HasFilename(att) == att # NoText

\* `not os.path.exists(file_location)`
Missing(file, files) == file \notin files

\* FilesToRemove with the operands of the difference exchanged
FilesToRemove_Swapped(existing, current) == current \ existing

\* existing_files - current_files
FilesToRemove(existing, current) == existing \ current

SyncInit ==
    /\ models = <<>>
    /\ pc = "Off"
    /\ Fresh
    /\ items \in Libraries
    /\ dir_exists \in BOOLEAN
    /\ papers \in (IF dir_exists THEN SUBSET FileNames ELSE {{}})
    /\ papers0 = papers
    /\ existing_files = {}
    /\ current_files = {}
    /\ metadata = <<>>
    /\ files_to_remove = {}
    /\ item_ix = 1
    /\ att_ix = 1
    /\ spc = "Start"
    /\ downloads = {}
    /\ removals = {}

\* lines 77-83: list the directory, create it when absent
SyncBegin ==
    /\ spc = "Start"
    /\ metadata' = <<>>
    /\ existing_files' = (IF dir_exists THEN papers ELSE {})
    /\ dir_exists' = TRUE
    /\ current_files' = {}
    /\ spc' = "Items"
    /\ UNCHANGED <<items, papers, files_to_remove, item_ix, att_ix, papers0,
                   downloads, removals>>
    /\ UNCHANGED bench

AtAttachment ==
    /\ spc = "Items"
    /\ item_ix <= Len(items)
    /\ att_ix <= Len(items[item_ix])

\* lines 92-102 for one attachment, zot.dump succeeding
SyncAttachment ==
    /\ AtAttachment
    /\ LET file == items[item_ix][att_ix] IN
         IF HasFilename(file)
            THEN /\ current_files' = current_files \cup {file}
                 /\ IF Missing(file, papers)
                       THEN /\ papers' = papers \cup {file}
                            /\ downloads' = downloads \cup {file}
                       ELSE UNCHANGED <<papers, downloads>>
                 /\ metadata' = Append(metadata, file)
            ELSE UNCHANGED <<current_files, papers, downloads, metadata>>
    /\ att_ix' = att_ix + 1
    /\ UNCHANGED <<items, dir_exists, existing_files, files_to_remove, item_ix,
                   spc, papers0, removals>>
    /\ UNCHANGED bench

\* lines 99-100 and 125-126 with zot.dump raising: extract_metadata is left
SyncDownloadFails ==
    /\ AtAttachment
    /\ LET file == items[item_ix][att_ix] IN
         /\ HasFilename(file)
         /\ Missing(file, papers)
         /\ current_files' = current_files \cup {file}
    /\ spc' = "Raised"
    /\ UNCHANGED <<items, papers, dir_exists, existing_files, metadata,
                   files_to_remove, item_ix, att_ix, papers0, downloads,
                   removals>>
    /\ UNCHANGED bench

\* `for item in items`: the attachments of an item are done
SyncNextItem ==
    /\ spc = "Items"
    /\ item_ix <= Len(items)
    /\ att_ix > Len(items[item_ix])
    /\ item_ix' = item_ix + 1
    /\ att_ix' = 1
    /\ UNCHANGED <<items, papers, dir_exists, existing_files, current_files,
                   metadata, files_to_remove, spc, papers0, downloads,
                   removals>>
    /\ UNCHANGED bench

\* line 105, after the last item
SyncItemsDone ==
    /\ spc = "Items"
    /\ item_ix > Len(items)
    /\ files_to_remove' = FilesToRemove(existing_files, current_files)
    /\ spc' = "Remove"
    /\ UNCHANGED <<items, papers, dir_exists, existing_files, current_files,
                   metadata, item_ix, att_ix, papers0, downloads, removals>>
    /\ UNCHANGED bench

\* lines 106-109 for one file of files_to_remove, in any order
SyncRemove ==
    /\ spc = "Remove"
    /\ \E file \in files_to_remove :
          /\ files_to_remove' = files_to_remove \ {file}
          /\ IF file \in papers
                THEN /\ papers' = papers \ {file}
                     /\ removals' = removals \cup {file}
                ELSE UNCHANGED <<papers, removals>>
    /\ UNCHANGED <<items, dir_exists, existing_files, current_files, metadata,
                   item_ix, att_ix, spc, papers0, downloads>>
    /\ UNCHANGED bench

\* line 111
SyncReturn ==
    /\ spc = "Remove"
    /\ files_to_remove = {}
    /\ spc' = "Returned"
    /\ UNCHANGED <<items, papers, dir_exists, existing_files, current_files,
                   metadata, files_to_remove, item_ix, att_ix, papers0,
                   downloads, removals>>
    /\ UNCHANGED bench

SyncNext ==
    \/ SyncBegin
    \/ SyncAttachment
    \/ SyncDownloadFails
    \/ SyncNextItem
    \/ SyncItemsDone
    \/ SyncRemove
    \/ SyncReturn

SyncSpec == SyncInit /\ [][SyncNext]_vars

---------------------------------------------------------------------------
(* Properties *)

results == benchmark_results_list

Ended == pc \in {"Done", "Crashed"}

Raises == { faults[k] : k \in 1..Len(faults) }

\* A fault was raised by a step of the loop
LoopFaulted == \E f \in Raises : f[1] \in LoopSteps

\* The double loop ran to its end
LoopCompleted == ollama_process /\ mi > Len(models) /\ ~LoopFaulted

IsPrefix(s, t) == Len(s) <= Len(t) /\ SubSeq(t, 1, Len(s)) = s

\* C1: once start_ollama_server has returned a handle, stop_ollama_server is
\* invoked exactly once in the run, whether the loop completes or a step of
\* it raises: never twice, and once by the time main() is left.
C1_StopExactlyOnce ==
    /\ stopCalls <= 1
    /\ (stopCalls = 1 => ollama_process)
    /\ (ollama_process /\ pc \in {"Wait", "Save", "Done", "Crashed"}
           => stopCalls = 1)

C1_Witness ==
    /\ pc = "Crashed"
    /\ faults = << <<"Cooldown", "KeyboardInterrupt">> >>
    /\ Len(results) = 1
    /\ stopCalls = 1

\* C2, state part: once the loop has run to its end without a fault there
\* are Len(models) * Reps records and the record at position m*Reps + r
\* (counting from 0) carries the name and parameters of catalog entry m.
C2_Complete ==
    LoopCompleted =>
        /\ Len(results) = Len(models) * Reps
        /\ \A m \in 1..Len(models) : \A r \in 0..(Reps - 1) :
              LET rec == results[(m - 1) * Reps + r + 1] IN
                 /\ rec.Model = models[m].name
                 /\ rec.Parameters = models[m].parameters

\* C2, step part: the record of pair (m, r) is appended at position
\* m*Reps + r, and no step removes or reorders records.
C2_Step ==
    /\ IsPrefix(results, results')
    /\ Len(results') <= Len(results) + 1
    /\ (Len(results') = Len(results) + 1 =>
           /\ pc = "Append"
           /\ Len(results) = (mi - 1) * Reps + rep
           /\ results'[Len(results')].Model = models[mi].name
           /\ results'[Len(results')].Parameters = models[mi].parameters)

\* C2: a run without fault ends with M x R records in catalog-then-repetition
\* order, and records are only ever appended.
C2_CatalogThenRepetitionOrder == [](C2_Complete) /\ [][C2_Step]_vars

C2_Witness ==
    /\ pc = "Done"
    /\ Len(models) = MaxModels
    /\ Len(results) = MaxModels * Reps
    /\ results[Reps].Parameters # results[Reps + 1].Parameters
    /\ faults = <<>>

TimeoutRecord(model) == ResultRecord(model, "Timeout", Zero, Zero)

\* C3, step part: the generate step of a request that timed out leaves
\* Answer = "Timeout", Runtime = 0, Speed = 0 and raises nothing; the append
\* step adds exactly that record; the sleep after it moves on to the next pair.
C3_Step ==
    /\ (pc = "Parse" /\ reply.kind = "timeout" =>
           /\ pc' = "Unload"
           /\ exc' = "None"
           /\ <<answer', runtime', speed'>> = <<"Timeout", Zero, Zero>>)
    /\ (pc = "Append" /\ reply.kind = "timeout" /\ pc' = "Sleep" =>
           results' = Append(results, TimeoutRecord(models[mi])))
    /\ (pc = "Sleep" /\ pc' = "Loop" =>
           /\ <<mi', rep'>> = NextPair(mi, rep)
           /\ exc' = "None")

\* C3: a timed-out generation request yields the record ("Timeout", 0, 0),
\* which is appended, and the run goes on: Timeout is never raised to main().
C3_TimeoutIsRecorded ==
    /\ [][C3_Step]_vars
    /\ [](\A f \in Raises : f[2] # "Timeout")

C3_Witness ==
    /\ pc = "Pull"
    /\ <<mi, rep>> = <<1, 1>>
    /\ results = << TimeoutRecord(models[1]) >>
    /\ exc = "None"

ErrorRecord(model) == ResultRecord(model, "Error", Zero, Zero)

IsOtherStatus(r) == r.kind = "response" /\ r.status # OkStatus

\* C4, step part: the generate step of a reply with a status other than 200
\* leaves Answer = "Error", Runtime = 0, Speed = 0 and raises nothing, and the
\* append step adds exactly that record.
C4_Step ==
    /\ (pc = "Parse" /\ IsOtherStatus(reply) =>
           /\ pc' = "Unload"
           /\ exc' = "None"
           /\ <<answer', runtime', speed'>> = <<"Error", Zero, Zero>>)
    /\ (pc = "Append" /\ IsOtherStatus(reply) /\ pc' = "Sleep" =>
           results' = Append(results, ErrorRecord(models[mi])))

\* C4: a reply with a status other than 200 yields the record ("Error", 0, 0)
\* and does not abort the run: no fault is raised by the generate step for it.
C4_OtherStatusIsRecorded ==
    /\ [][C4_Step]_vars
    /\ [](\A f \in Raises : f[2] # "HTTPError")

C4_Witness ==
    /\ pc = "Pull"
    /\ <<mi, rep>> = <<1, 1>>
    /\ results = << ErrorRecord(models[1]) >>
    /\ exc = "None"

ZeroEvalDuration(r) ==
    r.kind = "response" /\ r.status = OkStatus /\ DividesByZero(r.body)

\* C5: a status-200 reply with eval_duration 0 or absent gives Speed = 0 and
\* raises no fault: the generate step is followed by the unload step with
\* speed = 0, and no ZeroDivisionError is ever raised.
C5_ZeroEvalDurationGivesZeroSpeed ==
    /\ (\A f \in Raises : f[2] # "ZeroDivisionError")
    /\ (pc \in {"Unload", "Cooldown", "Append"} /\ ZeroEvalDuration(reply)
           => speed = Zero)

\* C6: in every invocation of benchmark_model the unload request follows the
\* generate step whatever its outcome: once the generate step is over, by
\* return or by a fault of that step, as many unload requests as generation
\* requests have been issued.
C6_UnloadAfterEveryGenerate ==
    /\ (pc \in {"Cooldown", "Append"} => unloadCount = postCount)
    /\ ((\E f \in Raises : f[1] = "Parse") => unloadCount = postCount)

\* C7: when a step of the loop raises, save_results is never called, the
\* file is not written, and by the time the fault leaves main()
\* stop_ollama_server has been invoked and the server was told to terminate.
C7_NoSaveAfterLoopFault ==
    LoopFaulted =>
        /\ saveCalls = 0
        /\ ~csv.exists
        /\ pc \notin {"Save", "Done"}
        /\ (pc = "Crashed" => stopCalls = 1 /\ process \in {"Terminating", "Exited"})

C7_Witness ==
    /\ pc = "Crashed"
    /\ faults = << <<"Sleep", "KeyboardInterrupt">> >>
    /\ Len(results) = 2
    /\ process = "Exited"
    /\ saveCalls = 0

\* stop_ollama_server raised after a loop that ran to its end
StopRaisedAfterLoop ==
    LoopCompleted /\ faults # <<>> /\ faults[1][1] = "Wait"

\* C8: when stop_ollama_server raises after a loop that completed normally
\* the run still reaches Done and the result list is handed to save_results.
C8_SaveDespiteStopFailure ==
    StopRaisedAfterLoop /\ Ended => pc = "Done" /\ saveCalls = 1

\* start_ollama_server raised: Popen failed or the settle delay was cut short
StartRaised == faults # <<>> /\ faults[1][1] \in {"Idle", "Settle"}

\* C9: when start_ollama_server raises, stop is still attempted before the
\* fault leaves main() and no server process is left running.
C9_StopAttemptedAfterStartFailure ==
    StartRaised /\ Ended => stopCalls >= 1 /\ process # "Running"

Interrupted == \E f \in Raises : f[2] = "KeyboardInterrupt"

\* C10: when the run is interrupted from outside at any point after the
\* server process was launched, the settle delay included, the server
\* process is terminated before the program exits.
C10_ServerTerminatedOnInterrupt ==
    Interrupted /\ process # "None" /\ Ended
        => process \in {"Terminating", "Exited"}

\* Steps of benchmark_model
RunnerSteps == {"Pull", "Post", "Parse", "Unload", "Cooldown"}

\* The fetch step of a pair begins
StartsPair == pc # "Pull" /\ pc' = "Pull"

\* C11, step part: when the fetch of a pair begins, every earlier invocation
\* of benchmark_model has returned its record, and the unload request of each
\* has been issued and has returned.
C11_Step ==
    StartsPair =>
        /\ pullCount = Len(results)
        /\ postCount = Len(results)
        /\ unloadCount = Len(results)

C12_AtMostOneServer ==
    /\ launched <= 1
    /\ (process \in {"Running", "Terminating", "Exited"} <=> launched = 1)
    /\ (ollama_process => launched = 1)

C12_Witness ==
    /\ launched = 1
    /\ process = "Running"
    /\ pc = "Loop"
    /\ Len(results) = Reps + 1

OkReply(r) ==
    r.kind = "response" /\ r.status = OkStatus /\ ~DividesByZero(r.body)

\* p/q is the quotient n/d
IsQuotient(f, n, d) == f[2] > 0 /\ f[1] * d = f[2] * n

\* C13, step part: for a status-200 reply the generate step leaves
\* Answer = the response field or "No response", Runtime = total_duration
\* over 10^9 and Speed = eval_count over eval_duration times 10^9; for
\* (5_000_000_000, 100, 2_000_000_000) these are 5 and 50.
C13_Step ==
    pc = "Parse" /\ OkReply(reply) =>
        /\ pc' = "Unload"
        /\ answer' = (IF reply.body.response = NoText
                         THEN "No response" ELSE reply.body.response)
        /\ IsQuotient(runtime', reply.body.total_duration, TicksPerSecond)
        /\ IsQuotient(speed', reply.body.eval_count * TicksPerSecond,
                      reply.body.eval_duration)
        /\ (reply.body.total_duration = 5000 => runtime' = <<5, 1>>)
        /\ (reply.body.eval_count = 100 /\ reply.body.eval_duration = 2000
               => speed' = <<50, 1>>)

\* C13: the record of a status-200 reply carries the Answer, Runtime and
\* Speed computed by the generate step from the fields of the reply.
C13_RuntimeAndSpeed ==
    /\ [][C13_Step]_vars
    /\ [][pc = "Append" /\ pc' = "Sleep" =>
             results' = Append(results,
                               ResultRecord(models[mi], answer, runtime, speed))]_vars

C13_Witness ==
    /\ pc = "Sleep"
    /\ results = << ResultRecord(models[1], "A, C, G, T", <<5, 1>>, <<50, 1>>),
                    ResultRecord(models[1], "No response", <<5, 1>>, <<50, 1>>),
                    ResultRecord(models[1], "A, C, G, T", <<3, 2>>, <<7, 3>>) >>

\* C16, step part: the fetch step is followed by the generation request
\* whatever the exit status of "ollama pull".
C16_Step ==
    pc = "Pull" /\ pulled' # Absent => pc' = "Post" /\ exc' = "None"

\* C16: a failed "ollama pull" is not fatal: it raises nothing, the generation
\* request and the unload request of the pair are still issued and the record
\* is handed to main.
C16_PullFailureNotFatal ==
    /\ [][C16_Step]_vars
    /\ [](\A f \in Raises : f[1] = "Pull" => f[2] = "KeyboardInterrupt")
    /\ [](pc = "Append" /\ pulled = 1 =>
             /\ postCount = pullCount
             /\ unloadCount = pullCount)

C16_Witness ==
    /\ pc = "Append"
    /\ pulled = 1
    /\ postCount = 2
    /\ unloadCount = 2
    /\ Len(results) = 1
    /\ exc = "None"

\* C17, step part: a generation request is issued only as the first request
\* of its pair.
C17_Step ==
    /\ postCount' \in {postCount, postCount + 1}
    /\ (postCount' = postCount + 1 => pc = "Post" /\ postCount = Len(results))

\* C17: no retry: one generation request per pair whatever its outcome, and
\* M x R requests over a run that completes the loop.
C17_OneRequestPerPair ==
    /\ [][C17_Step]_vars
    /\ [](postCount - Len(results) \in {0, 1})
    /\ [](LoopCompleted => postCount = Len(models) * Reps)

C17_Witness ==
    /\ pc = "Done"
    /\ Len(models) = MaxModels
    /\ postCount = MaxModels * Reps
    /\ results[1].Answer = "Timeout"
    /\ results[2].Answer = "Error"

\* Neither stop_ollama_server nor save_results raised
StopAndSaveReturned == \A f \in Raises : f[1] \notin {"Wait", "Save"}

\* C18 as stated, for the runs in which stop_ollama_server and save_results
\* do not themselves raise: on every exit of the loop save_results is invoked
\* exactly once, after stop_ollama_server.
C18_SaveOnceOnEveryLoopExit ==
    /\ (ollama_process /\ Ended /\ StopAndSaveReturned => saveCalls = 1)
    /\ (saveCalls >= 1 => stopCalls = 1 /\ process # "Running")

\* C18 amended: on every exit of the loop stop_ollama_server is invoked;
\* save_results is invoked at most once, only after stop_ollama_server has
\* returned and the server has exited, and only when the loop ran to its end:
\* never after a fault of the loop.
C18_SaveOnlyAfterStopAndCompletion ==
    /\ saveCalls <= 1
    /\ (ollama_process /\ Ended => stopCalls = 1)
    /\ (pc = "Done" => saveCalls = 1)
    /\ (saveCalls = 1 =>
           /\ stopCalls = 1
           /\ process = "Exited"
           /\ LoopCompleted)
    /\ (pc = "Save" => stopCalls = 1 /\ process = "Exited" /\ LoopCompleted)

C18_Witness ==
    /\ pc = "Done"
    /\ saveCalls = 1
    /\ stopCalls = 1
    /\ process = "Exited"
    /\ csv.exists
    /\ Len(csv.rows) = Reps

\* C20, step part: the generate step of a refused connection raises
\* ConnectionError into the finally clause of main and appends nothing.
C20_Step ==
    pc = "Parse" /\ reply.kind = "connection" =>
        /\ exc' = "ConnectionError"
        /\ pc' = "Wait"
        /\ stopCalls' = stopCalls + 1
        /\ results' = results

ConnectionRefused == <<"Parse", "ConnectionError">> \in Raises

\* C20: a fault of the generation request other than a timeout is not turned
\* into a sentinel: it reaches main(), no record is appended for the pair, no
\* further pair is run, the server is stopped and save_results is not called.
C20_OtherFaultPropagates ==
    /\ [][C20_Step]_vars
    /\ [](ConnectionRefused =>
             /\ pc \in {"Wait", "Crashed"}
             /\ Len(results) = (mi - 1) * Reps + rep
             /\ pullCount = Len(results) + 1
             /\ postCount = Len(results) + 1
             /\ unloadCount = Len(results)
             /\ stopCalls = 1
             /\ saveCalls = 0
             /\ ~csv.exists)

C20_Witness ==
    /\ pc = "Crashed"
    /\ faults = << <<"Parse", "ConnectionError">> >>
    /\ Len(results) = 1
    /\ process = "Exited"

Last(q) == q[Len(q)]

\* C14: save_results called with an empty list writes a file that consists
\* of the header row (Model, Parameters, Answer, Runtime (s), Speed
\* (tokens/s)) and of no data row.
C14_EmptyListWritesHeaderOnly ==
    persisted # <<>> /\ Last(persisted) = <<>> =>
        /\ csv.exists
        /\ csv.header = Header
        /\ csv.rows = <<>>

\* The file holds one row per record of list, in list order
HoldsExactly(file, list) ==
    /\ file.exists
    /\ Len(file.rows) = Len(list)
    /\ \A k \in 1..Len(list) :
          /\ file.rows[k][1] = list[k].Model
          /\ file.rows[k][2] = list[k].Parameters
          /\ file.rows[k][3] = list[k].Answer
          /\ file.rows[k][4] = list[k].Runtime
          /\ file.rows[k][5] = list[k].Speed

\* C15: save_results overwrites: after persisting A and then B the file
\* holds exactly the rows of B, whatever A was, and persisting the same list
\* a second time leaves the file as it is.
C15_OverwritesNotAppends ==
    /\ [](persisted # <<>> => HoldsExactly(csv, Last(persisted)))
    /\ [][persisted # <<>> /\ persisted' # persisted
             /\ Last(persisted') = Last(persisted) => csv' = csv]_vars

C15_Witness ==
    /\ Len(persisted) = 2
    /\ Len(persisted[1]) = 2
    /\ Len(persisted[2]) = 1
    /\ persisted[2][1] # persisted[1][1]
    /\ Len(csv.rows) = 1

\* The filenames of the attachments of the items of the library
AttachmentFiles ==
    UNION { { items[i][j] : j \in 1..Len(items[i]) } : i \in 1..Len(items) }
        \ {NoText}

\* C19: once extract_metadata has returned, the files of papers_dir are
\* exactly the attachment filenames of the library; a file is removed only if
\* it was there before the call and is no attachment filename; a file is
\* downloaded only if it was not there.
C19_SyncWithZotero ==
    /\ [](spc = "Returned" => dir_exists /\ papers = AttachmentFiles)
    /\ [](removals \subseteq (papers0 \ AttachmentFiles))
    /\ [](downloads \subseteq (AttachmentFiles \ papers0))
    /\ [][\A f \in downloads' \ downloads : f \notin papers]_vars
    /\ [][\A f \in removals' \ removals : f \in papers /\ f \in papers0]_vars

C19_Witness ==
    /\ spc = "Returned"
    /\ papers0 = {"a.pdf", "c.pdf"}
    /\ papers = {"a.pdf", "b.pdf"}
    /\ downloads = {"b.pdf"}
    /\ removals = {"c.pdf"}

=============================================================================
